---- MODULE Spec2Model ----
(***************************************************************************)
(* The MCP tool-dispatch server of backend/mcp_server.py: the MCPServer    *)
(* state (connections, tools, sessions), handle_request, the six default   *)
(* tools, the /mcp/ws receive/dispatch/send loop and the /mcp/call         *)
(* stateless entry point; and the client of the remote MCP server of       *)
(* backend/tavily_mcp_client.py with its call sites in backend/server.py.  *)
(*                                                                         *)
(* JSON values.  A JSON object is a function from field names to values;   *)
(* an absent field is a name outside the DOMAIN.  Scalars are strings.     *)
(* A JSON array or object standing where Python hashes the value (a tool   *)
(* name, a session id, a key) is the string Unhashable.  A value that is   *)
(* not an object standing where the code calls .get on it (params,         *)
(* arguments) is NotAMapping.                                              *)
(***************************************************************************)
EXTENDS Integers, Sequences, FiniteSets, TLC

\* Number of websocket connection attempts of the process lifetime.
MaxConns == 2

\* Number of messages a client has sent that the server has not read yet.
MaxWaiting == 1
\* Number of session ids tool_store draws from uuid4.
MaxGenerated == 1
\* Number of messages sent to the server, over both transports, the close of
\* a websocket by its client included.
MaxRequests == 2

\* connections, tools, sessions: the fields of MCPServer.
\* Per websocket c: pc[c] the place
\* of mcp_websocket's coroutine, connection_id[c] its local, cur[c] the request
\* being handled, resp[c] the response built and not yet sent, waiting[c] the
\* frames the client sent that receive_text has not returned yet, lastSent[c]
\* the outcome of the last response sent.  call: the /mcp/call exchange under
\* way.  nreq: the messages sent to the server so far, frames of the websockets
\* and calls of /mcp/call, counted up to MaxRequests.
\* stored: for each (session id, key), the value of the last store that
\* completed and the websocket it came over (0: /mcp/call); a history variable.
\* received[c], sent[c]: the ids of the requests websocket c has read and of
\* the responses it has sent, in order, while it is open; history variables.
\* remote: the exchange of the Tavily Expert client with its remote server,
\* and of the /api/mcp call site that started it.
\* gone[c]: "pending" once the client of websocket c has closed its end of the
\* transport while the coroutine was awaiting a tool, until the loop finds
\* out; "" otherwise.
VARIABLES connections, tools, sessions, pc, connection_id, cur, resp,
          waiting, lastSent, call, nreq, stored, received, sent, remote, gone

vars == <<connections, tools, sessions, pc, connection_id, cur, resp,
          waiting, lastSent, call, nreq, stored, received, sent, remote, gone>>

Conns == 1..MaxConns

----------------------------------------------------------------------------
\* Python / JSON values

None == "None"
Unhashable == "[list]"
EmptyMap == [k \in {} |-> None]
NotAMapping == [notamapping |-> None]
Timestamp == "<iso8601>"

IsMapping(v) == "notamapping" \notin DOMAIN v
Hashable(v) == v # Unhashable

\* dict.get(k, d)
Get(m, k, d) == IF k \in DOMAIN m THEN m[k] ELSE d

\* DictSet of a dict that keeps the last assignment alone
DictOnly(d, k, v) == (k :> v)

\* d[k] = v on a dict d
DictSet(d, k, v) == (k :> v) @@ d

\* str(uuid.uuid4()) drawn for websocket c: a draw differs from every other draw
Uuid(c) == "uuid-c" \o ToString(c)
\* str(uuid.uuid4()) drawn by tool_store: a value that is none of those in use
Uuid4(used) == "uuid-s" \o ToString(Cardinality({u \in used : u \notin {"s1", "s9"}}) + 1)

\* str(e) of the exceptions the handlers can raise
AttributeErrorMsg == <<"object has no attribute 'get'">>
UnhashableMsg == <<"unhashable type: 'list'">>
NoLenMsg == <<"object has no len()">>
NotComparableMsg == <<"'>' not supported between instances">>
NoExc == <<>>

Ok(result, sess) == [exc |-> NoExc, result |-> result, sessions |-> sess]
Raise(msg, sess) == [exc |-> msg, result |-> EmptyMap, sessions |-> sess]

----------------------------------------------------------------------------
\* The tool registry: an insertion-ordered dict, name -> bound method.

register_default_tools ==
    << <<"search", "tool_search">>, <<"extract", "tool_extract">>,
       <<"summarize", "tool_summarize">>, <<"analyze", "tool_analyze">>,
       <<"store", "tool_store">>, <<"retrieve", "tool_retrieve">> >>

\* Keys of a server that also advertises a tool it has not registered
KeysAndMore(d) == [i \in 1..(Len(d) + 1) |-> IF i <= Len(d) THEN d[i][1] ELSE "crawl"]

\* list(d.keys())
Keys(d) == [i \in 1..Len(d) |-> d[i][1]]
\* k in d (raises TypeError on an unhashable k: callers test Hashable first)
Has(d, k) == \E i \in 1..Len(d) : d[i][1] = k
\* d[k]
At(d, k) == d[CHOOSE i \in 1..Len(d) : d[i][1] = k][2]

----------------------------------------------------------------------------
\* The default tools.  Each takes the arguments and the sessions; each returns
\* what it returned or raised, and the sessions it left behind.

tool_search(params, sess) ==
    IF ~IsMapping(params) THEN Raise(AttributeErrorMsg, sess)
    ELSE Ok([type |-> "search_result", query |-> Get(params, "query", ""),
             timestamp |-> Timestamp], sess)

tool_extract(params, sess) ==
    IF ~IsMapping(params) THEN Raise(AttributeErrorMsg, sess)
    ELSE Ok([type |-> "extract_result", url |-> Get(params, "url", ""),
             content |-> <<"Extracted content from ", Get(params, "url", "")>>],
            sess)

\* len(text) of the texts of the model; Sized: the value has a len() at all
Sized(text) == text \in {"", "abc"}
TextLen(text) == IF text = "" THEN 0 ELSE 3
\* a max_length that compares with an int, and its value
DefaultMaxLength == 200
IsNumber(v) == v \in {"2"}
NumVal(v) == 2

tool_summarize(params, sess) ==
    IF ~IsMapping(params) THEN Raise(AttributeErrorMsg, sess)
    ELSE LET text == Get(params, "text", "")
             hasMax == "max_length" \in DOMAIN params
             max_length == IF hasMax THEN NumVal(params["max_length"])
                           ELSE DefaultMaxLength
         IN  IF ~Sized(text) THEN Raise(NoLenMsg, sess)
             ELSE IF hasMax /\ ~IsNumber(params["max_length"])
                  THEN Raise(NotComparableMsg, sess)
             ELSE Ok([type |-> "summary_result",
                      original_length |-> TextLen(text),
                      summary |-> IF TextLen(text) > max_length
                                  THEN [text |-> text, upto |-> max_length, ellipsis |-> TRUE]
                                  ELSE [text |-> text, upto |-> TextLen(text), ellipsis |-> FALSE],
                      timestamp |-> Timestamp], sess)

tool_analyze(params, sess) ==
    IF ~IsMapping(params) THEN Raise(AttributeErrorMsg, sess)
    ELSE Ok([type |-> "analysis_result",
             analysis_type |-> Get(params, "type", "general"),
             timestamp |-> Timestamp], sess)

\* tool_store with the assignment of the key in an else branch: the store
\* that creates the session sets no key
tool_store_else(params, sess) ==
    IF ~IsMapping(params) THEN Raise(AttributeErrorMsg, sess)
    ELSE LET minted == "session_id" \notin DOMAIN params
             session_id == IF minted THEN Uuid4(DOMAIN sess) ELSE params["session_id"]
             key == Get(params, "key", "")
             value == Get(params, "value", None)
             result == [type |-> "store_result", session_id |-> session_id,
                        key |-> key, success |-> TRUE, timestamp |-> Timestamp]
         IN  IF ~Hashable(session_id) THEN Raise(UnhashableMsg, sess)
             ELSE IF session_id \notin DOMAIN sess
                  THEN Ok(result, DictSet(sess, session_id, EmptyMap))
             ELSE IF ~Hashable(key) THEN Raise(UnhashableMsg, sess)
             ELSE Ok(result, [sess EXCEPT ![session_id] = DictSet(@, key, value)])

\* tool_store writing back a mapping of its own: the session becomes the one
\* key it sets
tool_store_replacing(params, sess) ==
    IF ~IsMapping(params) THEN Raise(AttributeErrorMsg, sess)
    ELSE LET minted == "session_id" \notin DOMAIN params
             session_id == IF minted THEN Uuid4(DOMAIN sess) ELSE params["session_id"]
             key == Get(params, "key", "")
             value == Get(params, "value", None)
         IN  IF ~Hashable(session_id) THEN Raise(UnhashableMsg, sess)
             ELSE IF ~Hashable(key) THEN Raise(UnhashableMsg, sess)
             ELSE Ok([type |-> "store_result", session_id |-> session_id,
                      key |-> key, success |-> TRUE, timestamp |-> Timestamp],
                     DictSet(sess, session_id, DictSet(EmptyMap, key, value)))

tool_store(params, sess) ==
    IF ~IsMapping(params) THEN Raise(AttributeErrorMsg, sess)
    ELSE LET minted == "session_id" \notin DOMAIN params
             session_id == IF minted THEN Uuid4(DOMAIN sess) ELSE params["session_id"]
             key == Get(params, "key", "")
             value == Get(params, "value", None)
         IN  IF ~Hashable(session_id) THEN Raise(UnhashableMsg, sess)
             ELSE LET created == IF session_id \notin DOMAIN sess
                                 THEN DictSet(sess, session_id, EmptyMap)
                                 ELSE sess
                  IN  IF ~Hashable(key) THEN Raise(UnhashableMsg, created)
                      ELSE Ok([type |-> "store_result", session_id |-> session_id,
                               key |-> key, success |-> TRUE, timestamp |-> Timestamp],
                              [created EXCEPT ![session_id] = DictSet(@, key, value)])

\* tool_retrieve of a store that hands a value out once: the key read is
\* removed from its session
tool_retrieve_popping(params, sess) ==
    IF ~IsMapping(params) THEN Raise(AttributeErrorMsg, sess)
    ELSE LET session_id == Get(params, "session_id", "")
             key == Get(params, "key", "")
         IN  IF ~Hashable(session_id) THEN Raise(UnhashableMsg, sess)
             ELSE IF session_id \notin DOMAIN sess
                  THEN Ok([type |-> "retrieve_result", session_id |-> session_id,
                           key |-> key, value |-> None, timestamp |-> Timestamp], sess)
             ELSE IF ~Hashable(key) THEN Raise(UnhashableMsg, sess)
             ELSE IF key \notin DOMAIN sess[session_id]
                  THEN Ok([type |-> "retrieve_result", session_id |-> session_id,
                           key |-> key, value |-> None, timestamp |-> Timestamp], sess)
             ELSE Ok([type |-> "retrieve_result", session_id |-> session_id,
                      key |-> key, value |-> sess[session_id][key],
                      timestamp |-> Timestamp],
                     [sess EXCEPT ![session_id] =
                          [x \in DOMAIN sess[session_id] \ {key} |-> sess[session_id][x]]])

\* tool_retrieve of a store that opens the session it is asked about
tool_retrieve_creating(params, sess) ==
    IF ~IsMapping(params) THEN Raise(AttributeErrorMsg, sess)
    ELSE LET session_id == Get(params, "session_id", "")
             key == Get(params, "key", "")
         IN  IF ~Hashable(session_id) THEN Raise(UnhashableMsg, sess)
             ELSE IF session_id \notin DOMAIN sess
                  THEN Ok([type |-> "retrieve_result", session_id |-> session_id,
                           key |-> key, value |-> None, timestamp |-> Timestamp],
                          DictSet(sess, session_id, EmptyMap))
             ELSE IF ~Hashable(key) THEN Raise(UnhashableMsg, sess)
             ELSE Ok([type |-> "retrieve_result", session_id |-> session_id,
                      key |-> key,
                      value |-> IF key \in DOMAIN sess[session_id]
                                THEN sess[session_id][key] ELSE None,
                      timestamp |-> Timestamp], sess)

tool_retrieve(params, sess) ==
    IF ~IsMapping(params) THEN Raise(AttributeErrorMsg, sess)
    ELSE LET session_id == Get(params, "session_id", "")
             key == Get(params, "key", "")
         IN  IF ~Hashable(session_id) THEN Raise(UnhashableMsg, sess)
             ELSE IF session_id \notin DOMAIN sess
                  THEN Ok([type |-> "retrieve_result", session_id |-> session_id,
                           key |-> key, value |-> None, timestamp |-> Timestamp], sess)
             ELSE IF ~Hashable(key) THEN Raise(UnhashableMsg, sess)
             ELSE Ok([type |-> "retrieve_result", session_id |-> session_id,
                      key |-> key,
                      value |-> IF key \in DOMAIN sess[session_id]
                                THEN sess[session_id][key] ELSE None,
                      timestamp |-> Timestamp], sess)

\* self.tools[tool_name](tool_params): the call of a bound method
Invoke(func, params, sess) ==
    CASE func = "tool_search" -> tool_search(params, sess)
      [] func = "tool_extract" -> tool_extract(params, sess)
      [] func = "tool_summarize" -> tool_summarize(params, sess)
      [] func = "tool_analyze" -> tool_analyze(params, sess)
      [] func = "tool_store" -> tool_store(params, sess)
      [] func = "tool_retrieve" -> tool_retrieve(params, sess)

\* func.__doc__: every default tool has a docstring; a handler written
\* without one has None
Doc(func) ==
    CASE func = "tool_search" -> "Search tool implementation"
      [] func = "tool_extract" -> "Extract tool implementation"
      [] func = "tool_summarize" -> "Summarize tool implementation"
      [] func = "tool_analyze" -> "Analyze tool implementation"
      [] func = "tool_store" -> "Store data in session"
      [] func = "tool_retrieve" -> "Retrieve data from session"
      [] OTHER -> None

\* Description without the fallback: the docstring as it is
DescriptionOrNull(name, func) == Doc(func)

\* func.__doc__ or f"{name} tool"
Description(name, func) ==
    IF Doc(func) \in {None, ""} THEN name \o " tool" ELSE Doc(func)

----------------------------------------------------------------------------
\* handle_request

MethodNotFound == -32601
InternalError == -32603

\* Envelope with the id left out of the response
EnvelopeWithoutEcho(request_id) == [jsonrpc |-> "2.0", id |-> None]

\* response = {"jsonrpc": "2.0", "id": request_id}
Envelope(request_id) == [jsonrpc |-> "2.0", id |-> request_id]

WithResult(response, result) == ("result" :> result) @@ response
WithError(response, code, message) ==
    ("error" :> [code |-> code, message |-> message]) @@ response

Done(response, sess) == [response |-> response, sessions |-> sess]

\* HandlerFailed with a code of the server's own for the failure of a tool
HandlerFailedServerError(response, exc, sess) ==
    Done(WithError(response, -32000, exc), sess)

\* except Exception as e: the error of the failure, logged
HandlerFailed(response, exc, sess) ==
    Done(WithError(response, InternalError, exc), sess)

\* UnknownMethod falling into the internal-error code
UnknownMethodAsInternal(response, method, sess) ==
    Done(WithError(response, InternalError, <<"Method '", method, "' not found">>), sess)

\* else: no branch of the method table matched
UnknownMethod(response, method, sess) ==
    Done(WithError(response, MethodNotFound, <<"Method '", method, "' not found">>), sess)

\* else: tool_name is not in self.tools
UnknownTool(response, tool_name, sess) ==
    Done(WithError(response, MethodNotFound, <<"Tool '", tool_name, "' not found">>), sess)

\* ToolCall with response["result"] assigned before the handler has returned
ToolCallResultFirst(reg, params, response, sess) ==
    IF ~IsMapping(params)
    THEN HandlerFailed(response, AttributeErrorMsg, sess)
    ELSE LET tool_name == Get(params, "name", "")
             tool_params == Get(params, "arguments", EmptyMap)
         IN  IF ~Hashable(tool_name)
             THEN HandlerFailed(response, UnhashableMsg, sess)
             ELSE IF Has(reg, tool_name)
                  THEN LET r == Invoke(At(reg, tool_name), tool_params, sess)
                       IN  IF r.exc = NoExc
                           THEN Done(WithResult(response, r.result), r.sessions)
                           ELSE HandlerFailed(WithResult(response, r.result), r.exc,
                                              r.sessions)
             ELSE UnknownTool(response, tool_name, sess)

\* ToolCall with params.get("arguments"), no default: the handler of a call
\* without arguments is given None, which is no mapping
ToolCallNoDefault(reg, params, response, sess) ==
    IF ~IsMapping(params)
    THEN HandlerFailed(response, AttributeErrorMsg, sess)
    ELSE LET tool_name == Get(params, "name", "")
             tool_params == Get(params, "arguments", NotAMapping)
         IN  IF ~Hashable(tool_name)
             THEN HandlerFailed(response, UnhashableMsg, sess)
             ELSE IF Has(reg, tool_name)
                  THEN LET r == Invoke(At(reg, tool_name), tool_params, sess)
                       IN  IF r.exc = NoExc
                           THEN Done(WithResult(response, r.result), r.sessions)
                           ELSE HandlerFailed(response, r.exc, r.sessions)
             ELSE UnknownTool(response, tool_name, sess)

\* the tool/call branch, inside the try
ToolCall(reg, params, response, sess) ==
    IF ~IsMapping(params)
    THEN HandlerFailed(response, AttributeErrorMsg, sess)
    ELSE LET tool_name == Get(params, "name", "")
             tool_params == Get(params, "arguments", EmptyMap)
         IN  IF ~Hashable(tool_name)
             THEN HandlerFailed(response, UnhashableMsg, sess)
             ELSE IF Has(reg, tool_name)
                  THEN LET r == Invoke(At(reg, tool_name), tool_params, sess)
                       IN  IF r.exc = NoExc
                           THEN Done(WithResult(response, r.result), r.sessions)
                           ELSE HandlerFailed(response, r.exc, r.sessions)
             ELSE UnknownTool(response, tool_name, sess)

handle_request(reg, request, sess) ==
    LET method == Get(request, "method", "")
        params == Get(request, "params", EmptyMap)
        request_id == Get(request, "id", None)
        response == Envelope(request_id)
    IN  CASE method = "initialize" ->
               Done(WithResult(response,
                       [capabilities |-> [tools |-> Keys(reg),
                                          features |-> <<"search", "extract", "ai_skills",
                                                         "session_storage">>],
                        version |-> "1.0.0"]), sess)
          [] method = "tool/call" -> ToolCall(reg, params, response, sess)
          [] method = "tool/list" ->
               Done(WithResult(response,
                       [tools |-> [i \in 1..Len(reg) |->
                                     [name |-> reg[i][1],
                                      description |-> Description(reg[i][1], reg[i][2]),
                                      parameters |-> EmptyMap]]]), sess)
          [] method = "ping" ->
               Done(WithResult(response, [pong |-> TRUE, timestamp |-> Timestamp]), sess)
          [] OTHER -> UnknownMethod(response, method, sess)

\* whether handle_request reaches the await of a tool coroutine (line 168)
AwaitsTool(reg, request) ==
    LET params == Get(request, "params", EmptyMap)
    IN  /\ Get(request, "method", "") = "tool/call"
        /\ IsMapping(params)
        /\ Hashable(Get(params, "name", ""))
        /\ Has(reg, Get(params, "name", ""))

\* whether the request makes tool_store draw a session id from uuid4
MintsUuid(reg, request) ==
    /\ AwaitsTool(reg, request)
    /\ At(reg, Get(request["params"], "name", "")) = "tool_store"
    /\ IsMapping(Get(request["params"], "arguments", EmptyMap))
    /\ "session_id" \notin DOMAIN Get(request["params"], "arguments", EmptyMap)

----------------------------------------------------------------------------
\* The requests a client can send.

Opt(k, V) == {EmptyMap} \cup {k :> v : v \in V}
Both(A, B) == {a @@ b : a \in A, b \in B}

ClientSessionIds == {"s1"}
\* the session ids a client can read: its own, those tool_store returned to
\* it, and one of no session
KnownSessionIds(sess) == ClientSessionIds \cup DOMAIN sess \cup {"s9"}
GeneratedSessionIds(sess) == DOMAIN sess \ ClientSessionIds

StoreArguments ==
    {NotAMapping} \cup
    Both(Both(Opt("session_id", ClientSessionIds \cup {Unhashable}),
              Opt("key", {"k1", Unhashable})),
         Opt("value", {"v1", "v2"}))
RetrieveArguments(sess) ==
    {NotAMapping} \cup
    Both(Opt("session_id", KnownSessionIds(sess) \cup {Unhashable}),
         Opt("key", {"k1", Unhashable}))
SummarizeArguments ==
    {NotAMapping} \cup
    Both(Opt("text", {"", "abc", "42"}), Opt("max_length", {"2", "x"}))
OtherArguments == {NotAMapping, EmptyMap, [query |-> "q", url |-> "u", type |-> "t"]}

ArgumentsOf(name, sess) ==
    CASE name = "store" -> StoreArguments
      [] name = "retrieve" -> RetrieveArguments(sess)
      [] name = "summarize" -> SummarizeArguments
      [] name \in {"search", "extract", "analyze"} -> OtherArguments
      [] OTHER -> {EmptyMap}

ToolNames == {"search", "extract", "summarize", "analyze", "store", "retrieve",
              "nosuch", Unhashable}

ToolCallParams(sess) ==
    {NotAMapping, EmptyMap, [arguments |-> EmptyMap]} \cup
    UNION {Both({[name |-> name]}, Opt("arguments", ArgumentsOf(name, sess))) :
           name \in ToolNames}

Ids == {"1", "2"}
OtherMethods == {"initialize", "tool/list", "ping", "bogus", ""}

\* every request of the model, in a server whose sessions are sess
AllRequests(sess) ==
    Both(Opt("id", Ids),
         Opt("method", OtherMethods) \cup
         Both(Opt("method", OtherMethods), {[params |-> NotAMapping]}) \cup
         {[method |-> "tool/call"]} \cup
         Both({[method |-> "tool/call"]}, {[params |-> p] : p \in ToolCallParams(sess)}))

ToolCallRequest(id, name, arguments) ==
    [id |-> id, method |-> "tool/call", params |-> [name |-> name, arguments |-> arguments]]

\* the requests of the whole server's model: one of each outcome
Requests ==
    { [id |-> "1", method |-> "ping"],
      [id |-> "2", method |-> "bogus"],
      ToolCallRequest("3", "nosuch", EmptyMap),
      ToolCallRequest("1", "store", [session_id |-> "s1", key |-> "k1", value |-> "v1"]),
      ToolCallRequest("2", "store", [session_id |-> "s1", key |-> "k1", value |-> "v2"]),
      ToolCallRequest("1", "store", [session_id |-> "s1", key |-> "k2", value |-> "v1"]),
      ToolCallRequest("1", "store", [session_id |-> "s1", key |-> Unhashable, value |-> "v1"]),
      ToolCallRequest("2", "retrieve", [session_id |-> "s1", key |-> "k1"]) }

----------------------------------------------------------------------------
\* State

NoRequest == EmptyMap
NoResponse == EmptyMap
NoCall == EmptyMap

\* what the last response sent was: an error of one of the codes, or not
Outcome(response) ==
    IF "error" \in DOMAIN response
    THEN IF response["error"].code = MethodNotFound THEN "method_not_found"
         ELSE "internal_error"
    ELSE "ok"

\* self.connections = {}; self.sessions = {}; no websocket, no call
InitEmpty ==
    /\ connections = EmptyMap
    /\ sessions = EmptyMap
    /\ pc = [c \in Conns |-> "connecting"]
    /\ connection_id = [c \in Conns |-> ""]
    /\ cur = [c \in Conns |-> NoRequest]
    /\ resp = [c \in Conns |-> NoResponse]
    /\ waiting = [c \in Conns |-> 0]
    /\ lastSent = [c \in Conns |-> "ok"]
    /\ call = NoCall
    /\ nreq = 0
    /\ stored = EmptyMap
    /\ received = [c \in Conns |-> <<>>]
    /\ sent = [c \in Conns |-> <<>>]
    /\ gone = [c \in Conns |-> ""]

InitServer == InitEmpty /\ tools = register_default_tools

\* the server with no remote MCP server and no Tavily key configured
Init == InitServer /\ remote = [pc |-> "unconfigured"]

\* Del of a cleanup that clears the mapping
DelAll(d, k) == EmptyMap

\* del d[k]
Del(d, k) == [x \in DOMAIN d \ {k} |-> d[x]]

\* whether the response answers a store that completed
CompletedStore(request, response) ==
    /\ AwaitsTool(tools, request)
    /\ At(tools, request["params"]["name"]) = "tool_store"
    /\ "result" \in DOMAIN response

\* the history of completed stores after handle_request answered request
StoredAfter(st, request, response, who) ==
    IF CompletedStore(request, response)
    THEN DictSet(st, <<response["result"].session_id, response["result"].key>>,
                 [value |-> Get(Get(request["params"], "arguments", EmptyMap), "value", None),
                  by |-> who])
    ELSE st

\* tool_store may draw a session id only while the model has one left
CanMint(request) ==
    MintsUuid(tools, request) =>
        Cardinality(GeneratedSessionIds(sessions)) < MaxGenerated

----------------------------------------------------------------------------
\* mcp_websocket

\* the coroutine's end: its locals and the unread frames go with it
Ended(c, place) ==
    /\ pc' = [pc EXCEPT ![c] = place]
    /\ cur' = [cur EXCEPT ![c] = NoRequest]
    /\ resp' = [resp EXCEPT ![c] = NoResponse]
    /\ waiting' = [waiting EXCEPT ![c] = 0]
    /\ lastSent' = [lastSent EXCEPT ![c] = "ok"]
    /\ received' = [received EXCEPT ![c] = <<>>]
    /\ sent' = [sent EXCEPT ![c] = <<>>]
    /\ gone' = [gone EXCEPT ![c] = ""]

\* OnWebSocketDisconnect of a cleanup that drops the sessions with the connection
OnWebSocketDisconnectDroppingSessions(c) ==
    /\ connections' = Del(connections, connection_id[c])
    /\ Ended(c, "closed")
    /\ sessions' = EmptyMap

\* except WebSocketDisconnect: del mcp_server.connections[connection_id]
OnWebSocketDisconnect(c) ==
    /\ IF connection_id[c] \in DOMAIN connections
       THEN /\ connections' = Del(connections, connection_id[c])
            /\ Ended(c, "closed")
       ELSE /\ connections' = connections
            /\ Ended(c, "KeyError")
    /\ sessions' = sessions

\* OnException of a clause that logs the error and leaves the entry
OnExceptionWithoutCleanup(c, e) ==
    /\ connections' = connections
    /\ Ended(c, e)
    /\ sessions' = sessions

\* the exceptions the loop can end on but WebSocketDisconnect: json.loads
\* raised, request.get raised on a frame that is no object, send_text raised
Errors == {"JSONDecodeError", "AttributeError", "RuntimeError"}

\* except Exception as e: the error is logged, and the entry is deleted if
\* it is there
OnException(c, e) ==
    /\ connections' = IF connection_id[c] \in DOMAIN connections
                      THEN Del(connections, connection_id[c])
                      ELSE connections
    /\ Ended(c, e)
    /\ sessions' = sessions

\* await websocket.accept() returns: the id is minted and registered
Accept(c) ==
    /\ pc[c] = "connecting"
    /\ connection_id' = [connection_id EXCEPT ![c] = Uuid(c)]
    /\ connections' = DictSet(connections, Uuid(c), c)
    /\ pc' = [pc EXCEPT ![c] = "receiving"]
    /\ UNCHANGED <<remote, gone, tools, sessions, cur, resp, waiting, lastSent, call, nreq,
                   stored, received, sent>>

\* await websocket.accept() raises: the coroutine ends before the try
AcceptFails(c) ==
    /\ pc[c] = "connecting"
    /\ pc' = [pc EXCEPT ![c] = "closed"]
    /\ UNCHANGED <<remote, gone, connections, tools, sessions, connection_id, cur, resp,
                   waiting, lastSent, call, nreq, stored, received, sent>>

\* the client closes its end of the transport while its request is with a
\* tool; the loop learns of it when it next awaits send_text or receive_text
\* (a close while the loop is at one of the two is ReceiveDisconnect or
\* SendFails)
ClientClose(c) ==
    /\ pc[c] = "handling"
    /\ gone[c] = ""
    /\ gone' = [gone EXCEPT ![c] = "pending"]
    /\ nreq < MaxRequests
    /\ nreq' = nreq + 1
    /\ UNCHANGED <<remote, connections, tools, sessions, pc, connection_id, cur, resp,
                   waiting, lastSent, call, stored, received, sent>>

\* the client sends a frame; the server reads it when it next awaits receive_text
ClientSend(c) ==
    /\ pc[c] \in {"receiving", "handling", "sending"}
    /\ gone[c] = ""
    /\ waiting[c] < MaxWaiting
    /\ waiting' = [waiting EXCEPT ![c] = @ + 1]
    /\ nreq < MaxRequests
    /\ nreq' = nreq + 1
    /\ UNCHANGED <<remote, gone, connections, tools, sessions, pc, connection_id, cur, resp,
                   lastSent, call, stored, received, sent>>

\* AtReceive of a loop that reads the next frame while a request is handled
AtReceivePipelined(c) == pc[c] \in {"receiving", "handling", "sending"}

\* AtReceive of a server that handles one request at a time over all its
\* websockets
AtReceiveSerialized(c) ==
    /\ pc[c] = "receiving"
    /\ \A d \in Conns \ {c} : pc[d] \notin {"handling", "sending"}

\* while True: the loop is back at receive_text only when the response to
\* the request before was sent
AtReceive(c) == pc[c] = "receiving"

\* receive_text returns a frame that json.loads turns into the dict request;
\* handle_request runs up to its first await, or to its end when it has none
Receive(c, request) ==
    /\ AtReceive(c)
    /\ waiting[c] > 0
    /\ CanMint(request)
    /\ waiting' = [waiting EXCEPT ![c] = @ - 1]
    /\ cur' = [cur EXCEPT ![c] = request]
    /\ IF AwaitsTool(tools, request)
       THEN /\ pc' = [pc EXCEPT ![c] = "handling"]
            /\ UNCHANGED <<resp, sessions>>
       ELSE LET d == handle_request(tools, request, sessions)
            IN  /\ pc' = [pc EXCEPT ![c] = "sending"]
                /\ resp' = [resp EXCEPT ![c] = d.response]
                /\ sessions' = d.sessions
    /\ received' = [received EXCEPT ![c] = Append(@, Get(request, "id", None))]
    /\ UNCHANGED <<remote, gone, connections, tools, connection_id, lastSent, call, nreq, stored, sent>>

\* HandlerRun of a handle_request without its try: the failure of the tool
\* reaches the loop, which ends
HandlerRunPropagating(c) ==
    /\ pc[c] = "handling"
    /\ LET d == handle_request(tools, cur[c], sessions)
       IN  IF "error" \in DOMAIN d.response
           THEN /\ connections' = Del(connections, connection_id[c])
                /\ Ended(c, "closed")
                /\ sessions' = d.sessions
                /\ UNCHANGED <<remote, tools, connection_id, call, nreq, stored>>
           ELSE /\ resp' = [resp EXCEPT ![c] = d.response]
                /\ sessions' = d.sessions
                /\ stored' = StoredAfter(stored, cur[c], d.response, c)
                /\ pc' = [pc EXCEPT ![c] = "sending"]
                /\ UNCHANGED <<remote, gone, connections, tools, connection_id, cur, waiting,
                               lastSent, call, nreq, received, sent>>

\* HandlerRun of a server that drops the invocation of a client that has
\* gone: the tool does not run and the websocket is closed
HandlerRunAbandoning(c) ==
    /\ pc[c] = "handling"
    /\ IF gone[c] # ""
       THEN /\ connections' = Del(connections, connection_id[c])
            /\ Ended(c, "closed")
            /\ UNCHANGED <<remote, tools, sessions, connection_id, call, nreq, stored>>
       ELSE /\ LET d == handle_request(tools, cur[c], sessions)
               IN  /\ resp' = [resp EXCEPT ![c] = d.response]
                   /\ sessions' = d.sessions
                   /\ stored' = StoredAfter(stored, cur[c], d.response, c)
            /\ pc' = [pc EXCEPT ![c] = "sending"]
            /\ UNCHANGED <<remote, gone, connections, tools, connection_id, cur, waiting,
                           lastSent, call, nreq, received, sent>>

\* HandlerRun of a server whose tools wait for one another: a tool runs
\* when no other websocket awaits one
HandlerRunWaiting(c) ==
    /\ pc[c] = "handling"
    /\ \A d \in Conns \ {c} : pc[d] # "handling"
    /\ LET d == handle_request(tools, cur[c], sessions)
       IN  /\ resp' = [resp EXCEPT ![c] = d.response]
           /\ sessions' = d.sessions
           /\ stored' = StoredAfter(stored, cur[c], d.response, c)
    /\ pc' = [pc EXCEPT ![c] = "sending"]
    /\ UNCHANGED <<remote, gone, connections, tools, connection_id, cur, waiting, lastSent, call,
                   nreq, received, sent>>

\* the awaited tool coroutine runs; handle_request returns its response
HandlerRun(c) ==
    /\ pc[c] = "handling"
    /\ LET d == handle_request(tools, cur[c], sessions)
       IN  /\ resp' = [resp EXCEPT ![c] = d.response]
           /\ sessions' = d.sessions
           /\ stored' = StoredAfter(stored, cur[c], d.response, c)
    /\ pc' = [pc EXCEPT ![c] = "sending"]
    /\ UNCHANGED <<remote, gone, connections, tools, connection_id, cur, waiting, lastSent, call,
                   nreq, received, sent>>

\* Send of a loop that does not go back to receive_text: the response stays
\* to be sent again
SendStaying(c) ==
    /\ pc[c] = "sending"
    /\ lastSent' = [lastSent EXCEPT ![c] = Outcome(resp[c])]
    /\ sent' = [sent EXCEPT ![c] = Append(@, resp[c]["id"])]
    /\ UNCHANGED <<remote, gone, connections, tools, sessions, pc, connection_id, cur, resp,
                   waiting, call, nreq, stored, received>>

\* Send of a loop that gives up a websocket after an error of code -32601:
\* the error is sent and the websocket is closed
SendClosingOnNotFound(c) ==
    /\ pc[c] = "sending"
    /\ IF Outcome(resp[c]) = "method_not_found"
       THEN /\ connections' = Del(connections, connection_id[c])
            /\ Ended(c, "closed")
            /\ UNCHANGED <<remote, tools, sessions, connection_id, call, nreq, stored>>
       ELSE /\ lastSent' = [lastSent EXCEPT ![c] = Outcome(resp[c])]
            /\ pc' = [pc EXCEPT ![c] = "receiving"]
            /\ cur' = [cur EXCEPT ![c] = NoRequest]
            /\ resp' = [resp EXCEPT ![c] = NoResponse]
            /\ sent' = [sent EXCEPT ![c] = Append(@, resp[c]["id"])]
            /\ UNCHANGED <<remote, gone, connections, tools, sessions, connection_id, waiting,
                           call, nreq, stored, received>>

\* await websocket.send_text(json.dumps(response)) returns
Send(c) ==
    /\ pc[c] = "sending"
    /\ lastSent' = [lastSent EXCEPT ![c] = Outcome(resp[c])]
    /\ pc' = [pc EXCEPT ![c] = "receiving"]
    /\ cur' = [cur EXCEPT ![c] = NoRequest]
    /\ resp' = [resp EXCEPT ![c] = NoResponse]
    /\ sent' = [sent EXCEPT ![c] = Append(@, resp[c]["id"])]
    /\ UNCHANGED <<remote, gone, connections, tools, sessions, connection_id, waiting, call, nreq,
                   stored, received>>

\* receive_text raises WebSocketDisconnect: the client closed
ReceiveDisconnect(c) ==
    /\ pc[c] = "receiving"
    /\ OnWebSocketDisconnect(c)
    /\ UNCHANGED <<remote, tools, connection_id, call, nreq, stored>>

\* ReceiveUndecodable of a loop that answers a frame it cannot decode with a
\* parse error and goes on
ReceiveUndecodableAnswered(c) ==
    /\ pc[c] = "receiving"
    /\ waiting[c] > 0
    /\ waiting' = [waiting EXCEPT ![c] = @ - 1]
    /\ resp' = [resp EXCEPT ![c] = WithError(Envelope(None), -32700, <<"Parse error">>)]
    /\ pc' = [pc EXCEPT ![c] = "sending"]
    /\ received' = [received EXCEPT ![c] = Append(@, None)]
    /\ UNCHANGED <<remote, gone, connections, tools, sessions, connection_id, cur, lastSent,
                   call, nreq, stored, sent>>

\* the frame read is no JSON text (json.loads raises), or JSON that is no
\* object (request.get raises at the top of handle_request, outside its try)
ReceiveUndecodable(c) ==
    /\ pc[c] = "receiving"
    /\ waiting[c] > 0
    /\ \E e \in {"JSONDecodeError", "AttributeError"} : OnException(c, e)
    /\ UNCHANGED <<remote, tools, connection_id, call, nreq, stored>>

\* send_text raises: WebSocketDisconnect or another exception, by the
\* version of the websocket library
SendFails(c) ==
    /\ pc[c] = "sending"
    /\ \/ OnWebSocketDisconnect(c)
       \/ OnException(c, "RuntimeError")
    /\ UNCHANGED <<remote, tools, connection_id, call, nreq, stored>>

\* the task of the websocket is cancelled while it is suspended at
\* receive_text or at send_text (the server shuts down): CancelledError is
\* no Exception, neither except clause takes it, and the coroutine ends with
\* its entry in place
Cancel(c) ==
    /\ pc[c] \in {"receiving", "sending"}
    /\ Ended(c, "cancelled")
    /\ UNCHANGED <<remote, connections, tools, sessions, connection_id, call, nreq, stored>>

----------------------------------------------------------------------------
\* mcp_call: POST /mcp/call

\* McpCall of an entry point that keeps no state beyond the call: what the
\* handler did to the sessions is dropped
McpCallWithoutState(request) ==
    /\ call = NoCall
    /\ CanMint(request)
    /\ call' = [req |-> request, resp |-> handle_request(tools, request, sessions).response]
    /\ nreq' = IF nreq < MaxRequests THEN nreq + 1 ELSE nreq
    /\ UNCHANGED <<remote, gone, connections, tools, sessions, pc, connection_id, cur, resp, waiting,
                   lastSent, stored, received, sent>>

\* McpCall of a server that registers, under the name asked for, a tool it
\* does not have
McpCallRegistering(request) ==
    /\ call = NoCall
    /\ CanMint(request)
    /\ LET d == handle_request(tools, request, sessions)
       IN  /\ call' = [req |-> request, resp |-> d.response]
           /\ sessions' = d.sessions
           /\ stored' = StoredAfter(stored, request, d.response, 0)
           /\ tools' = IF Outcome(d.response) = "method_not_found"
                          /\ Get(request, "method", None) = "tool/call"
                       THEN Append(tools, <<Get(Get(request, "params", EmptyMap), "name", ""),
                                            "tool_search">>)
                       ELSE tools
    /\ nreq' = IF nreq < MaxRequests THEN nreq + 1 ELSE nreq
    /\ UNCHANGED <<remote, gone, connections, pc, connection_id, cur, resp, waiting, lastSent,
                   received, sent>>

\* response = await mcp_server.handle_request(request)
McpCall(request) ==
    /\ call = NoCall
    /\ CanMint(request)
    /\ LET d == handle_request(tools, request, sessions)
       IN  /\ call' = [req |-> request, resp |-> d.response]
           /\ sessions' = d.sessions
           /\ stored' = StoredAfter(stored, request, d.response, 0)
    /\ nreq' = IF nreq < MaxRequests THEN nreq + 1 ELSE nreq
    /\ UNCHANGED <<remote, gone, connections, tools, pc, connection_id, cur, resp, waiting, lastSent,
                   received, sent>>

\* return response: the exchange is over
McpReturn ==
    /\ call # NoCall
    /\ call' = NoCall
    /\ UNCHANGED <<remote, gone, connections, tools, sessions, pc, connection_id, cur, resp,
                   waiting, lastSent, nreq, stored, received, sent>>

----------------------------------------------------------------------------
\* TavilyMCPClient (tavily_mcp_client.py), the client of the remote MCP
\* server, and its call sites in server.py.
\*
\* A URL is the sequence of its characters.  What the remote does is an
\* outcome: the transport raised (kind "raised", with the str() of the
\* exception), or a reply came (kind "reply", with its status and body).  A
\* body is a JSON object, or NotAMapping (JSON that is no object), or NotJson
\* (no JSON text), or Unreadable (reading it raises).

NotJson == [notjson |-> None]
Unreadable == [unreadable |-> None]
IsJson(body) == "notjson" \notin DOMAIN body /\ "unreadable" \notin DOMAIN body

\* what a coroutine of the client did: returned a value, or raised
Returns(value) == [raises |-> FALSE, value |-> value]
Raises(message) == [raises |-> TRUE, message |-> message]

StatusOk == 200

\* str(e): of the failure to connect, of asyncio.TimeoutError (the empty
\* string), of the failures to read the reply
ConnectMsg == "Cannot connect to host"
TimeoutMsg == ""
DecodeMsg == "Attempt to decode JSON with unexpected mimetype"
PayloadMsg == "Response payload is not completed"
NoGetMsg == "'list' object has no attribute 'get'"

\* s.endswith("/"), "?" in s, s.split("?", 1) on a sequence of characters
EndsWithSlash(s) == Len(s) > 0 /\ s[Len(s)] = "/"
HasQuery(s) == \E i \in 1..Len(s) : s[i] = "?"
QueryAt(s) == CHOOSE i \in 1..Len(s) : s[i] = "?" /\ \A j \in 1..(i - 1) : s[j] # "?"
WithSlash(s) == IF EndsWithSlash(s) THEN s ELSE s \o <<"/">>

\* the URL get_available_tools asks for its tools
TargetUrl(mcp_url) ==
    IF HasQuery(mcp_url)
    THEN LET base_url == SubSeq(mcp_url, 1, QueryAt(mcp_url) - 1)
             query == SubSeq(mcp_url, QueryAt(mcp_url) + 1, Len(mcp_url))
         IN  WithSlash(base_url) \o <<"tools", "?">> \o query
    ELSE WithSlash(mcp_url) \o <<"tools">>

\* await response.json(), and the .get on what it returned
JsonOf(body) ==
    IF body = Unreadable THEN Raises(PayloadMsg)
    ELSE IF body = NotJson THEN Raises(DecodeMsg)
    ELSE IF ~IsMapping(body) THEN Raises(NoGetMsg)
    ELSE Returns(body)

\* the try block of get_available_tools
get_available_tools_try(outcome) ==
    IF outcome.kind = "raised" THEN Raises(outcome.message)
    ELSE IF outcome.status = StatusOk
         THEN LET data == JsonOf(outcome.body)
              IN  IF data.raises THEN data
                  ELSE Returns(Get(data.value, "tools", <<>>))
    ELSE Returns(<<>>)

\* get_available_tools without its except clause
get_available_tools_raising(outcome) == get_available_tools_try(outcome)

get_available_tools(outcome) ==
    LET r == get_available_tools_try(outcome)
    IN  IF r.raises THEN Returns(<<>>) ELSE r

\* payload of call_tool
Payload(tool_name, parameters) ==
    [jsonrpc |-> "2.0", id |-> 1, method |-> "tool/call",
     params |-> [name |-> tool_name, arguments |-> parameters]]

\* the try block of call_tool
call_tool_try(outcome) ==
    IF outcome.kind = "raised" THEN Raises(outcome.message)
    ELSE IF outcome.status = StatusOk
         THEN LET data == JsonOf(outcome.body)
              IN  IF data.raises THEN data
                  ELSE Returns(Get(data.value, "result", EmptyMap))
    ELSE IF outcome.body = Unreadable THEN Raises(PayloadMsg)
    ELSE Returns([error |-> "MCP call failed: " \o ToString(outcome.status)])

\* call_tool without its except clause
call_tool_raising(outcome) == call_tool_try(outcome)

call_tool(outcome) ==
    LET r == call_tool_try(outcome)
    IN  IF r.raises THEN Returns([error |-> r.message]) ELSE r

\* raise HTTPException(status_code=..., detail=...)
HTTPException(status_code, detail) == [http_exception |-> status_code, detail |-> detail]

\* tavily_search and tavily_extract of server.py, the local path: local is
\* what tavily_client.search or .extract did
tavily_search(tavily_client, request, local) ==
    IF ~tavily_client THEN HTTPException(503, "Tavily client not initialized")
    ELSE IF local.raises THEN HTTPException(500, local.message)
    ELSE [success |-> TRUE, query |-> request.query,
          results |-> Get(local.value, "results", <<>>),
          answer |-> Get(local.value, "answer", None),
          images |-> IF request.include_images
                     THEN Get(local.value, "images", <<>>) ELSE <<>>]

tavily_extract(tavily_client, request, local) ==
    IF ~tavily_client THEN HTTPException(503, "Tavily client not initialized")
    ELSE IF local.raises THEN HTTPException(500, local.message)
    ELSE [success |-> TRUE, url |-> request.url,
          content |-> IF Get(local.value, "results", <<>>) # <<>>
                      THEN local.value["results"][1] ELSE EmptyMap,
          images |-> IF request.include_images
                     THEN Get(local.value, "images", <<>>) ELSE <<>>]

\* the payloads of tavily_search_advanced and tavily_extract_advanced
tavily_search_advanced(request) ==
    Payload("tavily_search_tool",
            [what_is_your_intent |-> "Search for information using Tavily Expert MCP",
             query |-> request.query, search_depth |-> request.search_depth,
             include_answer |-> request.include_answer,
             include_images |-> request.include_images,
             max_results |-> request.max_results])

tavily_extract_advanced(request) ==
    Payload("tavily_extract_tool",
            [what_is_your_intent |-> "Extract content using Tavily Expert MCP",
             urls |-> <<request.url>>, extract_depth |-> request.extract_depth,
             include_images |-> request.include_images])

\* the local path of a call site
Local(site, tavily_client, request, local) ==
    IF site = "search" THEN tavily_search(tavily_client, request, local)
    ELSE tavily_extract(tavily_client, request, local)

\* what mcp_tavily_search and mcp_tavily_extract answer once the client's
\* coroutine has ended with r: its value as the result, or, had it raised,
\* the local path
SiteAnswer(site, tavily_client, request, r, local) ==
    IF r.raises THEN Local(site, tavily_client, request, local)
    ELSE IF site = "search"
         THEN [success |-> TRUE, query |-> request.query, result |-> r.value,
               source |-> "tavily_expert_mcp"]
    ELSE [success |-> TRUE, url |-> request.url, result |-> r.value,
          source |-> "tavily_expert_mcp"]

\* the inputs of the model
NoClient == <<>>
McpUrls == {<<"h">>, <<"h", "/">>, <<"h", "?", "k">>, <<"h", "/", "?", "k">>}
Statuses == {StatusOk, 404, 500}
GetBodies == {NotJson, Unreadable, NotAMapping, EmptyMap, [tools |-> <<>>],
              [tools |-> <<[name |-> "tavily_search_tool"]>>]}
PostBodies == {NotJson, Unreadable, NotAMapping, EmptyMap,
               [result |-> [answer |-> "a"]],
               [error |-> [code |-> MethodNotFound, message |-> "Tool not found"]]}
Raised == {[kind |-> "raised", message |-> m] : m \in {ConnectMsg, TimeoutMsg}}
Replies(bodies) == {[kind |-> "reply", status |-> st, body |-> b] : st \in Statuses, b \in bodies}
SearchRequests ==
    {[query |-> "q", search_depth |-> "basic", include_answer |-> TRUE,
      include_images |-> i, max_results |-> 5] : i \in BOOLEAN}
ExtractRequests ==
    {[url |-> "u", extract_depth |-> "basic", include_images |-> i] : i \in BOOLEAN}
SiteRequests(site) == IF site = "search" THEN SearchRequests ELSE ExtractRequests
Locals == {Raises("local failure"),
           Returns([results |-> <<[content |-> "c"]>>, answer |-> "a", images |-> <<"i">>]),
           Returns(EmptyMap)}

\* the server's two clients, and no exchange under way
Idle(tavily_expert_client, tavily_client) ==
    [pc |-> "idle", tavily_expert_client |-> tavily_expert_client,
     tavily_client |-> tavily_client, site |-> "", delegate |-> "",
     request |-> EmptyMap, asked |-> EmptyMap, outcome |-> EmptyMap,
     ret |-> EmptyMap, out |-> EmptyMap]

ServerUnchanged ==
    UNCHANGED <<connections, tools, sessions, pc, connection_id, cur, resp, waiting,
                lastSent, call, nreq, stored, received, sent, gone>>

\* GET /api/mcp/tools
GetMcpTools ==
    /\ remote.pc = "idle"
    /\ IF remote.tavily_expert_client = NoClient
       THEN remote' = [remote EXCEPT !.pc = "done", !.site = "tools",
                          !.out = HTTPException(503, "Tavily Expert MCP not configured")]
       ELSE remote' = [remote EXCEPT !.pc = "get", !.site = "tools",
                          !.delegate = "get_available_tools",
                          !.asked = TargetUrl(remote.tavily_expert_client)]
    /\ ServerUnchanged

\* the GET of get_available_tools ends; get_mcp_tools answers
GetEnds(outcome) ==
    /\ remote.pc = "get"
    /\ LET r == get_available_tools(outcome)
       IN  remote' = [remote EXCEPT !.pc = "done", !.outcome = outcome, !.ret = r,
                         !.out = IF r.raises THEN HTTPException(500, r.message)
                                 ELSE [success |-> TRUE, tools |-> r.value,
                                       mcp_url |-> remote.tavily_expert_client]]
    /\ ServerUnchanged

\* POST /api/mcp/search, POST /api/mcp/extract
McpTavily(site, request, local) ==
    /\ remote.pc = "idle"
    /\ IF remote.tavily_expert_client = NoClient
       THEN remote' = [remote EXCEPT !.pc = "done", !.site = site, !.request = request,
                          !.out = Local(site, remote.tavily_client, request, local)]
       ELSE remote' = [remote EXCEPT !.pc = "post", !.site = site, !.request = request,
                          !.delegate = "call_tool",
                          !.asked = IF site = "search" THEN tavily_search_advanced(request)
                                    ELSE tavily_extract_advanced(request)]
    /\ ServerUnchanged

\* the POST of call_tool ends; the call site answers
PostEnds(outcome, local) ==
    /\ remote.pc = "post"
    /\ LET r == call_tool(outcome)
       IN  remote' = [remote EXCEPT !.pc = "done", !.outcome = outcome, !.ret = r,
                         !.out = SiteAnswer(remote.site, remote.tavily_client,
                                            remote.request, r, local)]
    /\ ServerUnchanged

\* the answer is returned
SiteReturns ==
    /\ remote.pc = "done"
    /\ remote' = Idle(remote.tavily_expert_client, remote.tavily_client)
    /\ ServerUnchanged

----------------------------------------------------------------------------

Next ==
    \/ \E c \in Conns : Accept(c)
    \/ \E c \in Conns : AcceptFails(c)
    \/ \E c \in Conns : ClientSend(c)
    \/ \E c \in Conns : ClientClose(c)
    \/ \E c \in Conns : \E request \in Requests : Receive(c, request)
    \/ \E c \in Conns : HandlerRun(c)
    \/ \E c \in Conns : Send(c)
    \/ \E c \in Conns : ReceiveDisconnect(c)
    \/ \E c \in Conns : ReceiveUndecodable(c)
    \/ \E c \in Conns : SendFails(c)
    \/ \E c \in Conns : Cancel(c)
    \/ \E request \in Requests : nreq < MaxRequests /\ McpCall(request)
    \/ McpReturn

Spec == Init /\ [][Next]_vars

\* The websockets alone, with the task of each scheduled fairly: a tool that
\* is awaited runs (the tools have no await of their own and end, by
\* returning or by raising), and an awaited send_text ends, by returning or
\* by raising.  Nothing is assumed of the clients: receive_text may wait for
\* ever.  The requests are one of each way through the loop: answered
\* without an await, answered by a tool, answered for a tool that raised.
LiveRequests ==
    { [id |-> "1", method |-> "ping"],
      ToolCallRequest("1", "store", [session_id |-> "s1", key |-> "k1", value |-> "v1"]),
      ToolCallRequest("2", "store", [session_id |-> "s1", key |-> Unhashable, value |-> "v1"]) }

NextLoop ==
    \/ \E c \in Conns : Accept(c)
    \/ \E c \in Conns : AcceptFails(c)
    \/ \E c \in Conns : ClientSend(c)
    \/ \E c \in Conns : ClientClose(c)
    \/ \E c \in Conns : \E request \in LiveRequests : Receive(c, request)
    \/ \E c \in Conns : HandlerRun(c)
    \/ \E c \in Conns : Send(c)
    \/ \E c \in Conns : ReceiveDisconnect(c)
    \/ \E c \in Conns : ReceiveUndecodable(c)
    \/ \E c \in Conns : SendFails(c)
    \/ \E c \in Conns : Cancel(c)

SpecFair ==
    /\ Init
    /\ [][NextLoop]_vars
    /\ \A c \in Conns : WF_vars(HandlerRun(c)) /\ WF_vars(Send(c) \/ SendFails(c))

\* The server reached through POST /mcp/call alone, with every request.
NextCall ==
    \/ \E request \in AllRequests(sessions) : McpCall(request)
    \/ McpReturn

SpecCall == Init /\ [][NextCall]_vars

\* The server reached through POST /mcp/call, with every request, while a
\* websocket is open and idle: the state Accept leaves.
InitOpen ==
    /\ connections = DictSet(EmptyMap, Uuid(1), 1)
    /\ tools = register_default_tools
    /\ sessions = EmptyMap
    /\ pc = [c \in Conns |-> IF c = 1 THEN "receiving" ELSE "connecting"]
    /\ connection_id = [c \in Conns |-> IF c = 1 THEN Uuid(1) ELSE ""]
    /\ cur = [c \in Conns |-> NoRequest]
    /\ resp = [c \in Conns |-> NoResponse]
    /\ waiting = [c \in Conns |-> 0]
    /\ lastSent = [c \in Conns |-> "ok"]
    /\ call = NoCall
    /\ nreq = 0
    /\ stored = EmptyMap
    /\ received = [c \in Conns |-> <<>>]
    /\ sent = [c \in Conns |-> <<>>]
    /\ gone = [c \in Conns |-> ""]
    /\ remote = [pc |-> "unconfigured"]

SpecOpen == InitOpen /\ [][NextCall]_vars

\* The answers that describe the registry, over registries of the default
\* tools and of a handler written without a docstring.
MaxTools == 2

Handlers == {<<"search", "tool_search">>, <<"store", "tool_store">>,
             <<"retrieve", "tool_retrieve">>, <<"crawl", "tool_crawl">>}

Registries ==
    {register_default_tools} \cup
    {reg \in UNION {[1..n -> Handlers] : n \in 0..MaxTools} :
         \A i, j \in DOMAIN reg : reg[i][1] = reg[j][1] => i = j}

ListRequests ==
    {request \in AllRequests(EmptyMap) :
         Get(request, "method", "") \in {"initialize", "tool/list"}}

InitList == InitEmpty /\ tools \in Registries /\ remote = [pc |-> "unconfigured"]

NextList ==
    \/ \E request \in ListRequests : McpCall(request)
    \/ McpReturn

SpecList == InitList /\ [][NextList]_vars

\* The call sites of the remote client, with every configuration of the two
\* clients and everything the remote and the local Tavily client can do.
InitRemote ==
    /\ InitServer
    /\ \E tavily_expert_client \in {NoClient} \cup McpUrls : \E tavily_client \in BOOLEAN :
           remote = Idle(tavily_expert_client, tavily_client)

NextRemote ==
    \/ GetMcpTools
    \/ \E outcome \in Raised \cup Replies(GetBodies) : GetEnds(outcome)
    \/ \E site \in {"search", "extract"} : \E request \in SiteRequests(site) :
           \E local \in Locals : McpTavily(site, request, local)
    \/ \E outcome \in Raised \cup Replies(PostBodies) : \E local \in Locals :
           PostEnds(outcome, local)
    \/ SiteReturns

SpecRemote == InitRemote /\ [][NextRemote]_vars

----------------------------------------------------------------------------
\* The exchange of /mcp/call under way, and what its request asks for.

Called == call # NoCall
Method(request) == Get(request, "method", "")
Params(request) == Get(request, "params", EmptyMap)
IsToolCall(request) == Method(request) = "tool/call" /\ IsMapping(Params(request))
ToolName(request) == Get(Params(request), "name", "")
Arguments(request) == Get(Params(request), "arguments", EmptyMap)
Calls(request, name) ==
    IsToolCall(request) /\ ToolName(request) = name /\ IsMapping(Arguments(request))
HasResult(response) == "result" \in DOMAIN response
HasError(response) == "error" \in DOMAIN response
\* the message has the text as one of its parts
Names(message, text) == \E i \in 1..Len(message) : message[i] = text

\* C1: a response carries the id of its request, whenever the request has
\* one, whatever the method and the outcome.
IdEcho ==
    (Called /\ "id" \in DOMAIN call.req) =>
        ("id" \in DOMAIN call.resp /\ call.resp["id"] = call.req["id"])

\* C1 witness: an error response that echoes the id "2".
IdEchoWitness ==
    /\ Called
    /\ "id" \in DOMAIN call.req
    /\ call.req["id"] = "2"
    /\ HasError(call.resp)
    /\ call.resp["id"] = "2"

\* C2: the response to a request without an id has no id field.
NotificationHasNoId ==
    (Called /\ "id" \notin DOMAIN call.req) => "id" \notin DOMAIN call.resp

\* C3: a response has a result or an error, and never both.
ResultXorError ==
    Called => (HasResult(call.resp) # HasError(call.resp))

\* C3 witness: a store that failed part-way (the session was created, the key
\* was not set) is answered with an error alone.
ResultXorErrorWitness ==
    /\ Called
    /\ Calls(call.req, "store")
    /\ Get(Arguments(call.req), "key", "") = Unhashable
    /\ "s1" \in DOMAIN sessions
    /\ sessions["s1"] = EmptyMap
    /\ HasError(call.resp)
    /\ ~HasResult(call.resp)

\* C4: a method that is none of the four, an empty or a missing one
\* included, is answered with an error of code -32601 that names the method.
UnknownMethodIsNotFound ==
    (Called /\ Method(call.req) \notin {"initialize", "tool/list", "tool/call", "ping"}) =>
        /\ HasError(call.resp)
        /\ ~HasResult(call.resp)
        /\ call.resp["error"].code = MethodNotFound
        /\ Names(call.resp["error"].message, Method(call.req))

\* C4 witness: a request without a method is answered with -32601.
UnknownMethodWitness ==
    /\ Called
    /\ "method" \notin DOMAIN call.req
    /\ HasError(call.resp)
    /\ call.resp["error"].code = MethodNotFound

\* C5: a tool/call whose name is not in the registry is answered with an
\* error of code -32601 whose message contains the name.
UnknownToolIsNotFound ==
    (Called /\ IsToolCall(call.req) /\ ~Has(tools, ToolName(call.req))) =>
        /\ HasError(call.resp)
        /\ call.resp["error"].code = MethodNotFound
        /\ Names(call.resp["error"].message, ToolName(call.req))

----------------------------------------------------------------------------
\* The websocket loops.

Open(c) == pc[c] \in {"receiving", "handling", "sending"}
Closed(c) == pc[c] \in {"closed", "KeyError", "cancelled"} \cup Errors
Registered(c) == connection_id[c] \in DOMAIN connections
Ping == [id |-> "1", method |-> "ping"]
\* what the tool awaited by websocket c does in the sessions as they are
Awaited(c) == Invoke(At(tools, ToolName(cur[c])), Arguments(cur[c]), sessions)
\* the step in which the tool awaited by websocket c raises
ToolRaises(c) == pc[c] = "handling" /\ pc'[c] # "handling" /\ Awaited(c).exc # NoExc

\* C6: the failure of a tool handler does not reach the loop: it is answered
\* with an error of code -32603 that carries the failure's message, the
\* connection stays open and registered, and a ping that follows the error
\* on the connection gets a result.
HandlerFailureIsolated ==
    /\ [][\A c \in Conns : ToolRaises(c) =>
            /\ pc'[c] = "sending"
            /\ HasError(resp'[c])
            /\ ~HasResult(resp'[c])
            /\ resp'[c]["error"] = [code |-> InternalError, message |-> Awaited(c).exc]
            /\ connection_id[c] \in DOMAIN connections']_vars
    /\ [](\A c \in Conns : lastSent[c] = "internal_error" =>
            /\ Open(c)
            /\ Registered(c)
            /\ (pc[c] = "sending" /\ cur[c] = Ping) =>
                   (HasResult(resp[c]) /\ ~HasError(resp[c]) /\ resp[c]["result"].pong))

\* C6 witness: a connection that sent the error of a failed handler has the
\* result of a later ping to send, and is registered.
HandlerFailureWitness ==
    \E c \in Conns :
        /\ lastSent[c] = "internal_error"
        /\ pc[c] = "sending"
        /\ cur[c] = Ping
        /\ HasResult(resp[c])
        /\ Registered(c)

\* the session id and the key a retrieve or a store names
SessionOf(request) == Get(Arguments(request), "session_id", "")
KeyOf(request) == Get(Arguments(request), "key", "")
Slot(request) == <<SessionOf(request), KeyOf(request)>>
\* the step in which the retrieve awaited by websocket c runs
RetrieveRuns(c) == pc[c] = "handling" /\ pc'[c] = "sending" /\ Calls(cur[c], "retrieve")
\* the step in which /mcp/call handles a retrieve
RetrieveCalled == call = NoCall /\ call' # NoCall /\ Calls(call'.req, "retrieve")

\* C7: a retrieve of (s, k), over any websocket or over /mcp/call, returns
\* the value of the last store to (s, k) that completed before it.
SessionRoundTrip ==
    /\ [][\A c \in Conns : (RetrieveRuns(c) /\ Slot(cur[c]) \in DOMAIN stored) =>
            /\ HasResult(resp'[c])
            /\ resp'[c]["result"].value = stored[Slot(cur[c])].value]_vars
    /\ [][(RetrieveCalled /\ Slot(call'.req) \in DOMAIN stored) =>
            /\ HasResult(call'.resp)
            /\ call'.resp["result"].value = stored[Slot(call'.req)].value]_vars

\* C7 witness: a websocket has the stored value to send for a retrieve.
SessionRoundTripWitness ==
    \E c \in Conns :
        /\ pc[c] = "sending"
        /\ Calls(cur[c], "retrieve")
        /\ Slot(cur[c]) \in DOMAIN stored
        /\ HasResult(resp[c])
        /\ resp[c]["result"].value \in {"v1", "v2"}

\* C8: a retrieve of a session id that does not exist, or of a key that is
\* not in an existing session, is answered with a result whose value is
\* null, never with an error.
RetrieveAbsentIsNull ==
    (/\ Called
     /\ Calls(call.req, "retrieve")
     /\ \/ SessionOf(call.req) \notin DOMAIN sessions
        \/ KeyOf(call.req) \notin DOMAIN sessions[SessionOf(call.req)]) =>
        /\ HasResult(call.resp)
        /\ ~HasError(call.resp)
        /\ call.resp["result"].value = None

\* the store to the slot came over a websocket that is closed and removed
StorerClosed(slot) ==
    /\ slot \in DOMAIN stored
    /\ stored[slot].by \in Conns
    /\ Closed(stored[slot].by)
    /\ ~Registered(stored[slot].by)

\* C9: the closing of a connection leaves the sessions as they are, and a
\* retrieve on another connection returns what a connection since closed
\* and removed had stored.
SessionsOutliveConnections ==
    /\ [][(\E c \in Conns : ~Closed(c) /\ pc'[c] \in {"closed", "KeyError"} \cup Errors) =>
            sessions' = sessions]_vars
    /\ [][\A c \in Conns : (RetrieveRuns(c) /\ StorerClosed(Slot(cur[c]))) =>
            /\ HasResult(resp'[c])
            /\ resp'[c]["result"].value = stored[Slot(cur[c])].value]_vars

\* C9 witness: a websocket has to send the value that a websocket now closed
\* and removed had stored.
SessionsOutliveWitness ==
    \E c \in Conns :
        /\ pc[c] = "sending"
        /\ Calls(cur[c], "retrieve")
        /\ StorerClosed(Slot(cur[c]))
        /\ stored[Slot(cur[c])].by # c
        /\ HasResult(resp[c])
        /\ resp[c]["result"].value = stored[Slot(cur[c])].value
        /\ resp[c]["result"].value \in {"v1", "v2"}

\* C10: the loop takes a request in only when it is at receive_text with no
\* request being handled and no response waiting to be sent.
NoPipelining ==
    /\ [][\A c \in Conns : (cur'[c] # cur[c] /\ cur'[c] # NoRequest) =>
            /\ pc[c] = "receiving"
            /\ cur[c] = NoRequest
            /\ resp[c] = NoResponse]_vars
    /\ [](\A c \in Conns : pc[c] = "receiving" => (cur[c] = NoRequest /\ resp[c] = NoResponse))

\* C10 witness: a second frame has arrived while the handler of the first is
\* suspended.
NoPipeliningWitness ==
    \E c \in Conns : pc[c] = "handling" /\ waiting[c] > 0

----------------------------------------------------------------------------
\* s is the beginning of t
IsPrefix(s, t) == Len(s) <= Len(t) /\ \A i \in 1..Len(s) : s[i] = t[i]
\* the requests websocket c has read and not answered yet
Unanswered(c) == Len(received[c]) - Len(sent[c])

\* C11: on a websocket the i-th response sent carries the id of the i-th
\* request read; every request read gets one response, sent before the next
\* request is read, and no response is sent that answers no request.
ResponsesInOrder ==
    \A c \in Conns :
        /\ IsPrefix(sent[c], received[c])
        /\ Unanswered(c) \in {0, 1}
        /\ Unanswered(c) = 1 <=> pc[c] \in {"handling", "sending"}

\* C11 witness: a websocket has answered two requests of different ids, in
\* the order it read them.
ResponsesInOrderWitness ==
    \E c \in Conns :
        /\ Len(sent[c]) = 2
        /\ sent[c] = received[c]
        /\ sent[c][1] # sent[c][2]

----------------------------------------------------------------------------
\* the step in which the store awaited by websocket c runs
StoreRuns(c) == pc[c] = "handling" /\ pc'[c] = "sending" /\ Calls(cur[c], "store")
\* the session holds the key with the value of the last store that completed
Held(slot) ==
    /\ slot[1] \in DOMAIN sessions
    /\ slot[2] \in DOMAIN sessions[slot[1]]
    /\ sessions[slot[1]][slot[2]] = stored[slot].value

\* C12: no store is lost.  A store that runs, whatever the other websockets
\* are suspended at and whether the session exists or not, sets its key and
\* keeps every other key the session had; and at every moment the session
\* holds each key with the value of the last store to it that completed.
NoLostUpdate ==
    /\ [](\A slot \in DOMAIN stored : Held(slot))
    /\ [][\A c \in Conns : (StoreRuns(c) /\ HasResult(resp'[c])) =>
            /\ SessionOf(cur[c]) \in DOMAIN sessions'
            /\ KeyOf(cur[c]) \in DOMAIN sessions'[SessionOf(cur[c])]
            /\ SessionOf(cur[c]) \in DOMAIN sessions =>
                   \A k \in DOMAIN sessions[SessionOf(cur[c])] \ {KeyOf(cur[c])} :
                       /\ k \in DOMAIN sessions'[SessionOf(cur[c])]
                       /\ sessions'[SessionOf(cur[c])][k] = sessions[SessionOf(cur[c])][k]]_vars

\* C12 witness: two websockets have each a completed store in hand, to two
\* keys of one session that neither found when its request was read, and the
\* session holds both keys.
NoLostUpdateWitness ==
    \E c, d \in Conns :
        /\ c # d
        /\ pc[c] = "sending" /\ Calls(cur[c], "store") /\ HasResult(resp[c])
        /\ pc[d] = "sending" /\ Calls(cur[d], "store") /\ HasResult(resp[d])
        /\ SessionOf(cur[c]) = SessionOf(cur[d])
        /\ KeyOf(cur[c]) # KeyOf(cur[d])
        /\ Slot(cur[c]) \in DOMAIN stored /\ stored[Slot(cur[c])].by = c
        /\ Slot(cur[d]) \in DOMAIN stored /\ stored[Slot(cur[d])].by = d
        /\ Held(Slot(cur[c]))
        /\ Held(Slot(cur[d]))

----------------------------------------------------------------------------
\* C13: whatever another open websocket is suspended at (its receive, its
\* tool handler or its send), a websocket with a frame to read can read and
\* dispatch it, one whose handler is awaited can run it, and one with a
\* response can send it.
ProceedIndependently ==
    \A c, d \in Conns : (c # d /\ Open(c)) =>
        /\ (pc[d] = "receiving" /\ waiting[d] > 0) =>
               ENABLED (\E request \in Requests : Receive(d, request))
        /\ pc[d] = "handling" => ENABLED HandlerRun(d)
        /\ pc[d] = "sending" => ENABLED Send(d)

\* C13 witness: a websocket has had its request answered and is back at its
\* receive while another, with a request of its own, is suspended at its
\* tool handler.
ProceedIndependentlyWitness ==
    \E c, d \in Conns :
        /\ c # d
        /\ pc[c] = "handling"
        /\ pc[d] = "receiving"
        /\ Len(sent[d]) = 1
        /\ sent[d] = received[d]

----------------------------------------------------------------------------
\* the coroutine of websocket c ended in one of its except clauses
Handled(c) == pc[c] \in {"closed", "KeyError"} \cup Errors
\* the step in which websocket c, open, ends on a disconnect or on an error
Closes(c) == Open(c) /\ Handled(c)'

\* C14: the step that closes a websocket, on a disconnect or on another
\* error of its loop, finds its entry in the connections and removes that
\* entry and no other; the del never fails on an absent entry; and a closed
\* websocket takes no further step, so its cleanup does not run again.
CleanupOnce ==
    /\ [][\A c \in Conns : Closes(c) =>
            /\ connection_id[c] \in DOMAIN connections
            /\ DOMAIN connections' = DOMAIN connections \ {connection_id[c]}]_vars
    /\ [](\A c \in Conns : pc[c] # "KeyError")
    /\ [][\A c \in Conns : Handled(c) =>
            /\ pc'[c] = pc[c]
            /\ connection_id'[c] = connection_id[c]
            /\ connection_id[c] \notin DOMAIN connections']_vars

\* C14 witness: a websocket that was registered is closed, its entry is
\* gone, and the entry of another websocket is still there.
CleanupOnceWitness ==
    \E c, d \in Conns :
        /\ pc[c] = "closed"
        /\ connection_id[c] # ""
        /\ ~Registered(c)
        /\ Open(d)
        /\ Registered(d)

----------------------------------------------------------------------------
\* C15: a websocket has no identifier and no entry before its handshake has
\* completed, no two websockets have the same identifier, and at every
\* moment the keys of the connections are the identifiers of the websockets
\* that are open.
RegisteredIffOpen ==
    /\ \A c \in Conns : pc[c] = "connecting" => connection_id[c] = ""
    /\ \A c, d \in Conns :
           (c # d /\ connection_id[c] # "") => connection_id[c] # connection_id[d]
    /\ DOMAIN connections = {connection_id[c] : c \in {x \in Conns : Open(x)}}

----------------------------------------------------------------------------
\* the step in which /mcp/call dispatches a request
CallDispatches == call = NoCall /\ call' # NoCall
\* the step in which the loop of websocket c gets the response to its request
LoopDispatches(c) == pc[c] \in {"receiving", "handling"} /\ pc'[c] = "sending"

\* C16: /mcp/call and an iteration of a websocket's loop give, for the
\* request and the server state they find, the response and the sessions
\* that handle_request gives for them; and a /mcp/call exchange leaves the
\* connections as they are.
GatewayAsLoop ==
    /\ [][CallDispatches =>
            /\ call'.resp = handle_request(tools, call'.req, sessions).response
            /\ sessions' = handle_request(tools, call'.req, sessions).sessions
            /\ connections' = connections]_vars
    /\ [][\A c \in Conns : LoopDispatches(c) =>
            /\ resp'[c] = handle_request(tools, cur'[c], sessions).response
            /\ sessions' = handle_request(tools, cur'[c], sessions).sessions]_vars
    /\ [][(call # NoCall /\ call' = NoCall) =>
            (connections' = connections /\ sessions' = sessions)]_vars

\* C16 witness: a store came over /mcp/call while a websocket is open: the
\* session holds the value, and the connections are the open websocket's
\* entry.
GatewayAsLoopWitness ==
    /\ Called
    /\ Calls(call.req, "store")
    /\ HasResult(call.resp)
    /\ Slot(call.req) \in DOMAIN stored
    /\ stored[Slot(call.req)].by = 0
    /\ Held(Slot(call.req))
    /\ \E c \in Conns : Open(c) /\ DOMAIN connections = {connection_id[c]}

----------------------------------------------------------------------------
\* the step in which something fails on websocket c: its tool handler
\* raises, or its loop ends (a disconnect, an undecodable message, a failed
\* send, a cancellation)
Fails(c) == ToolRaises(c) \/ (Open(c) /\ Closed(c)')
\* a websocket has failed: it sent an error, or its loop has ended
SomeFailed == \E c \in Conns : lastSent[c] # "ok" \/ (Closed(c) /\ connection_id[c] # "")

\* C20: a step in which something fails on a websocket leaves every other
\* websocket where it is and leaves its entry in the connections; and after
\* a failure the server still accepts a websocket that connects, and still
\* answers a ping over /mcp/call with a result.
FailureScoped ==
    /\ [][\A c \in Conns : Fails(c) =>
            \A d \in Conns \ {c} :
                /\ pc'[d] = pc[d]
                /\ Registered(d) => connection_id[d] \in DOMAIN connections']_vars
    /\ [](SomeFailed =>
            /\ \A d \in Conns : pc[d] = "connecting" =>
                   ENABLED (Accept(d) /\ connection_id'[d] \in DOMAIN connections')
            /\ call = NoCall => ENABLED (McpCall(Ping) /\ HasResult(call'.resp)))

\* C20 witness: a websocket that was registered has ended, another is open
\* and registered, and /mcp/call has a result to return.
FailureScopedWitness ==
    \E c, d \in Conns :
        /\ Closed(c)
        /\ connection_id[c] # ""
        /\ Open(d)
        /\ Registered(d)
        /\ Called
        /\ HasResult(call.resp)

----------------------------------------------------------------------------
\* The exchanges with the remote MCP server.

\* the client's coroutine has ended
Ran(delegate) == remote.pc = "done" /\ remote.delegate = delegate
\* the remote was not reached or timed out, or answered with another status
\* than 200
TransportFailed == remote.outcome.kind = "raised"
StatusFailed == remote.outcome.kind = "reply" /\ remote.outcome.status # StatusOk
RemoteFailed == TransportFailed \/ StatusFailed

\* C17: call_tool returns, whatever the remote does; when the transport
\* raised it returns an error entry with the str() of the exception, and when
\* the status is not 200 an error entry with a message.
InvokeNeverRaises ==
    Ran("call_tool") =>
        /\ ~remote.ret.raises
        /\ RemoteFailed => "error" \in DOMAIN remote.ret.value
        /\ TransportFailed => remote.ret.value["error"] = remote.outcome.message
        /\ StatusFailed =>
               remote.ret.value["error"] \in
                   {PayloadMsg, "MCP call failed: " \o ToString(remote.outcome.status)}

\* C17 witness: call_tool has returned the error entry of a status 500.
InvokeNeverRaisesWitness ==
    /\ Ran("call_tool")
    /\ StatusFailed
    /\ remote.outcome.status = 500
    /\ ~remote.ret.raises
    /\ remote.ret.value = [error |-> "MCP call failed: 500"]

\* C18: get_available_tools returns, whatever the remote does: the empty
\* list when the transport raised or the status is not 200, and the tools of
\* the reply when the status is 200 and the reply is an object with tools.
ListNeverRaises ==
    Ran("get_available_tools") =>
        /\ ~remote.ret.raises
        /\ RemoteFailed => remote.ret.value = <<>>
        /\ (/\ remote.outcome.kind = "reply"
            /\ remote.outcome.status = StatusOk
            /\ IsJson(remote.outcome.body)
            /\ IsMapping(remote.outcome.body)
            /\ "tools" \in DOMAIN remote.outcome.body) =>
               remote.ret.value = remote.outcome.body["tools"]

\* C18 witness: the remote was not reached, and /api/mcp/tools answers with
\* an empty list of tools.
ListNeverRaisesWitness ==
    /\ Ran("get_available_tools")
    /\ TransportFailed
    /\ remote.ret = Returns(<<>>)
    /\ "tools" \in DOMAIN remote.out
    /\ remote.out["tools"] = <<>>

\* C19: when the remote client is configured and its call for a search or an
\* extract ended on a transport failure or on a status that is not 200, the
\* call site answers with what the local path gives, not with the remote's
\* error entry.
FallsBackToLocal ==
    (Ran("call_tool") /\ remote.site \in {"search", "extract"} /\ RemoteFailed) =>
        /\ "source" \notin DOMAIN remote.out
        /\ "result" \notin DOMAIN remote.out


----------------------------------------------------------------------------
\* The registry and the answers that describe it.

NotFound(response) == HasError(response) /\ response["error"]["code"] = MethodNotFound
UnknownToolAsked(request) ==
    IsToolCall(request) /\ IsMapping(Params(request)) /\ ToolName(request) = "nosuch"

\* C21: in every state the registry is the one register_default_tools built:
\* the same names, once each, in the same order, each bound to the same
\* handler, whatever was asked on the websockets and on the gateway.
RegistryFixed ==
    /\ tools = register_default_tools
    /\ \A i, j \in 1..Len(tools) : tools[i][1] = tools[j][1] => i = j

\* C21 witness: a tool the registry does not have was asked for on the
\* gateway after a websocket was answered, and the registry has not got it.
RegistryFixedWitness ==
    /\ Called
    /\ UnknownToolAsked(call.req)
    /\ NotFound(call.resp)
    /\ \E c \in Conns : Len(sent[c]) > 0
    /\ ~Has(tools, "nosuch")


\* the names an initialize result lists
Listed(response) == response["result"]["capabilities"]["tools"]
\* what a tool/call of the name, asked now, is answered
AnswerTo(name, arguments) ==
    handle_request(tools, ToolCallRequest("1", name, arguments), sessions).response

\* C22: whatever the sessions hold, the result of an initialize lists the
\* names of the registry, all of them and each once, with the four features
\* and the version; and a tool/call of any name it lists is not answered with
\* the code -32601, whatever its arguments.
InitializeListsRegistry ==
    (Called /\ Method(call.req) = "initialize") =>
        /\ HasResult(call.resp) /\ ~HasError(call.resp)
        /\ DOMAIN call.resp["result"] = {"capabilities", "version"}
        /\ DOMAIN call.resp["result"]["capabilities"] = {"tools", "features"}
        /\ call.resp["result"]["capabilities"]["features"] =
               <<"search", "extract", "ai_skills", "session_storage">>
        /\ call.resp["result"]["version"] = "1.0.0"
        /\ {Listed(call.resp)[i] : i \in DOMAIN Listed(call.resp)} =
               {tools[i][1] : i \in DOMAIN tools}
        /\ \A i, j \in DOMAIN Listed(call.resp) :
               Listed(call.resp)[i] = Listed(call.resp)[j] => i = j
        /\ \A i \in DOMAIN Listed(call.resp) :
               \A arguments \in ArgumentsOf(Listed(call.resp)[i], sessions) \cup {NotAMapping} :
                   ~NotFound(AnswerTo(Listed(call.resp)[i], arguments))

\* C22 witness: an initialize with params that are no object was answered
\* when a session was held.
InitializeListsRegistryWitness ==
    /\ Called
    /\ Method(call.req) = "initialize"
    /\ Get(call.req, "params", EmptyMap) = NotAMapping
    /\ sessions # EmptyMap
    /\ Len(Listed(call.resp)) = 6


\* the descriptors a tool/list result lists
Descriptors(response) == response["result"]["tools"]

\* C23: the result of a tool/list has one descriptor for each tool of the
\* registry, in the order of registration, each with the name of the tool and
\* a description: the docstring of the handler, and "<name> tool" for a
\* handler that has none.
ListDescribesRegistry ==
    (Called /\ Method(call.req) = "tool/list") =>
        /\ HasResult(call.resp) /\ ~HasError(call.resp)
        /\ DOMAIN call.resp["result"] = {"tools"}
        /\ Len(Descriptors(call.resp)) = Len(tools)
        /\ \A i \in DOMAIN tools :
               /\ {"name", "description"} \subseteq DOMAIN Descriptors(call.resp)[i]
               /\ Descriptors(call.resp)[i]["name"] = tools[i][1]
               /\ Descriptors(call.resp)[i]["description"] =
                      IF Doc(tools[i][2]) \in {None, ""}
                      THEN tools[i][1] \o " tool"
                      ELSE Doc(tools[i][2])

\* C23 witness: a registry of a documented tool and, after it, of a handler
\* without a docstring was listed.
ListDescribesRegistryWitness ==
    /\ Called
    /\ Method(call.req) = "tool/list"
    /\ tools = <<(<<"store", "tool_store">>), (<<"crawl", "tool_crawl">>)>>
    /\ Descriptors(call.resp)[1]["description"] = "Store data in session"
    /\ Descriptors(call.resp)[2]["name"] = "crawl"
    /\ Descriptors(call.resp)[2]["description"] = "crawl tool"



----------------------------------------------------------------------------
\* What a store does, and what everything else leaves alone.

\* a store with a session id, a key and a value
FullStore(request) ==
    /\ Calls(request, "store")
    /\ {"session_id", "key", "value"} \subseteq DOMAIN Arguments(request)

\* C24: a store with a session id, a key and a value is answered with a
\* result that has success true and the session id and the key of the
\* request, and after it the session exists and holds the value under the
\* key.
StoreAlwaysSucceeds ==
    (Called /\ FullStore(call.req)) =>
        /\ HasResult(call.resp) /\ ~HasError(call.resp)
        /\ call.resp["result"]["success"] = TRUE
        /\ call.resp["result"]["session_id"] = SessionOf(call.req)
        /\ call.resp["result"]["key"] = KeyOf(call.req)
        /\ SessionOf(call.req) \in DOMAIN sessions
        /\ KeyOf(call.req) \in DOMAIN sessions[SessionOf(call.req)]
        /\ sessions[SessionOf(call.req)][KeyOf(call.req)] = Arguments(call.req)["value"]


\* the step is a store to the key k of the session s, on a websocket or on
\* the gateway
StoresTo(s, k) ==
    \/ \E c \in Conns : StoreRuns(c) /\ Slot(cur[c]) = <<s, k>>
    \/ CallDispatches /\ Calls(call'.req, "store") /\ Slot(call'.req) = <<s, k>>

\* C25: no step removes a session or a key: a session that exists exists
\* after every step, with every key it had, and the value under a key is
\* another after a step only when the step is a store to that session and
\* key; the steps that close or cancel a websocket are among them.
NeverEvicted ==
    [][\A s \in DOMAIN sessions :
           /\ s \in DOMAIN sessions'
           /\ \A k \in DOMAIN sessions[s] :
                  /\ k \in DOMAIN sessions'[s]
                  /\ sessions'[s][k] # sessions[s][k] => StoresTo(s, k)]_vars

\* C25 witness: the websocket whose store last set the key was cancelled,
\* and the session holds the key with the value that store set.
NeverEvictedWitness ==
    \E c \in Conns :
        /\ pc[c] = "cancelled"
        /\ <<"s1", "k1">> \in DOMAIN stored
        /\ stored[<<"s1", "k1">>] = [value |-> "v2", by |-> c]
        /\ Held(<<"s1", "k1">>)


\* a tool/call of store
IsStore(request) == IsToolCall(request) /\ ToolName(request) = "store"

\* C28: the step that handles a request that is no tool/call of store
\* (initialize, tool/list, ping, a method or a tool the server does not
\* have, a tool/call of search, extract, summarize, analyze or retrieve,
\* whatever its params) leaves the sessions, the registry and the connections
\* as they are.
NoSideEffects ==
    [][(CallDispatches /\ ~IsStore(call'.req)) =>
          /\ sessions' = sessions
          /\ tools' = tools
          /\ connections' = connections]_vars

\* C28 witness: while a websocket is registered and a session is held, a
\* retrieve from a session that does not exist was answered, and there is no
\* such session.
NoSideEffectsWitness ==
    /\ Called
    /\ Calls(call.req, "retrieve")
    /\ SessionOf(call.req) = "s9"
    /\ HasResult(call.resp)
    /\ "s9" \notin DOMAIN sessions
    /\ sessions # EmptyMap
    /\ DOMAIN connections = {Uuid(1)}
    /\ tools = register_default_tools

\* the sessions a step opens
Opened == DOMAIN sessions' \ DOMAIN sessions

\* C29: the step that handles a tool/call of store leaves the registry and
\* the connections as they are; every session that existed exists after it,
\* with every key it had, and every key of it other than the key of the
\* store in the session of the store has the value it had; the step opens no
\* session but the session of the store, and sets in it no key but the key
\* of the store.
StoreChangesOneEntry ==
    [][(CallDispatches /\ IsStore(call'.req)) =>
          /\ tools' = tools
          /\ connections' = connections
          /\ \A s \in DOMAIN sessions :
                 /\ s \in DOMAIN sessions'
                 /\ DOMAIN sessions[s] \subseteq DOMAIN sessions'[s]
                 /\ \A k \in DOMAIN sessions'[s] :
                        (s # SessionOf(call'.req) \/ k # KeyOf(call'.req)) =>
                            /\ k \in DOMAIN sessions[s]
                            /\ sessions'[s][k] = sessions[s][k]
          /\ Cardinality(Opened) <= 1
          /\ "session_id" \in DOMAIN Arguments(call'.req) =>
                 Opened \subseteq {SessionOf(call'.req)}
          /\ \A s \in Opened : DOMAIN sessions'[s] \subseteq {KeyOf(call'.req)}]_vars

\* C29 witness: a store set a key in a session that holds another key, while
\* another session was held and a websocket was registered.
StoreChangesOneEntryWitness ==
    /\ Called
    /\ FullStore(call.req)
    /\ HasResult(call.resp)
    /\ Cardinality(DOMAIN sessions) = 2
    /\ SessionOf(call.req) \in DOMAIN sessions
    /\ DOMAIN sessions[SessionOf(call.req)] = {"", "k1"}
    /\ stored[Slot(call.req)].value = Arguments(call.req)["value"]
    /\ DOMAIN connections = {Uuid(1)}

----------------------------------------------------------------------------
\* The loop, a client that has gone, and the errors that end nothing.

\* the client of websocket c closed the transport while its request was with
\* a tool, and the loop has not found out
GonePending(c) == gone[c] = "pending"
\* the step in which the tool awaited by websocket c returns or raises
ToolEnds(c) == pc[c] = "handling" /\ pc'[c] # "handling"

\* C26: when the client has closed the transport while a tool of its
\* websocket is awaited, the tool can still run and nothing else ends the
\* wait; the step that ends it is the whole of handle_request, response and
\* sessions, and after a store that succeeded the session holds the value;
\* the websocket closes only later, at send_text or receive_text, and the
\* step that closes it finds its entry and removes that entry alone; a
\* websocket that has closed closes no second time.
InFlightCompletes ==
    /\ [](\A c \in Conns : (GonePending(c) /\ pc[c] = "handling") => ENABLED HandlerRun(c))
    /\ [][\A c \in Conns : (GonePending(c) /\ ToolEnds(c)) =>
             /\ pc'[c] = "sending"
             /\ resp'[c] = handle_request(tools, cur[c], sessions).response
             /\ sessions' = handle_request(tools, cur[c], sessions).sessions
             /\ (Calls(cur[c], "store") /\ HasResult(resp'[c])) =>
                    /\ SessionOf(cur[c]) \in DOMAIN sessions'
                    /\ KeyOf(cur[c]) \in DOMAIN sessions'[SessionOf(cur[c])]
                    /\ sessions'[SessionOf(cur[c])][KeyOf(cur[c])] =
                           Get(Arguments(cur[c]), "value", None)]_vars
    /\ [][\A c \in Conns : (GonePending(c) /\ Closes(c)) =>
             /\ pc[c] \in {"sending", "receiving"}
             /\ Registered(c)
             /\ connections' = Del(connections, connection_id[c])]_vars
    /\ [](\A c \in Conns : Handled(c) =>
             ~ENABLED (ReceiveDisconnect(c) \/ ReceiveUndecodable(c) \/ SendFails(c)))

\* C26 witness: the client of a websocket went while its store was awaited;
\* the store has completed, its response is still to be sent, the session
\* holds the value, and a retrieve asked now is answered with it.
InFlightCompletesWitness ==
    \E c \in Conns :
        /\ GonePending(c)
        /\ pc[c] = "sending"
        /\ Registered(c)
        /\ Calls(cur[c], "store")
        /\ HasResult(resp[c])
        /\ stored[Slot(cur[c])].by = c
        /\ Held(Slot(cur[c]))
        /\ AnswerTo("retrieve", [session_id |-> SessionOf(cur[c]), key |-> KeyOf(cur[c])])
               ["result"]["value"] = Arguments(cur[c])["value"]

\* websocket c has an error of code -32601 to send
NotFoundToSend(c) == pc[c] = "sending" /\ NotFound(resp[c])
\* the last response websocket c sent was an error of code -32601
NotFoundSent(c) == lastSent[c] = "method_not_found"

\* C27: an error of code -32601, for a method or for a tool the server does
\* not have, ends nothing: it can be sent, and the step that sends it leaves
\* the websocket at receive_text with its entry in the connections; there the
\* next frame can be read, whatever the request in it; and the request that
\* follows gets the response, and the sessions get the effect, that
\* handle_request gives for it.
NotFoundRecoverable ==
    /\ [](\A c \in Conns : NotFoundToSend(c) =>
             ENABLED (Send(c) /\ pc'[c] = "receiving" /\ connections' = connections))
    /\ [][\A c \in Conns : (NotFoundToSend(c) /\ pc'[c] = "receiving") =>
             /\ NotFoundSent(c)'
             /\ Registered(c)'
             /\ connections' = connections
             /\ sessions' = sessions]_vars
    /\ [](\A c \in Conns : (NotFoundSent(c) /\ pc[c] = "receiving") =>
             /\ Registered(c)
             /\ waiting[c] > 0 => \A request \in Requests : ENABLED Receive(c, request))
    /\ [][\A c \in Conns : (NotFoundSent(c) /\ LoopDispatches(c)) =>
             /\ resp'[c] = handle_request(tools, cur'[c], sessions).response
             /\ sessions' = handle_request(tools, cur'[c], sessions).sessions]_vars

\* C27 witness: a websocket that sent the error of an unknown tool has the
\* result of a later ping to send, and is registered.
NotFoundRecoverableWitness ==
    \E c \in Conns :
        /\ NotFoundSent(c)
        /\ received[c] = <<"3", "1">>
        /\ sent[c] = <<"3">>
        /\ pc[c] = "sending"
        /\ cur[c] = Ping
        /\ HasResult(resp[c])
        /\ resp[c]["result"]["pong"] = TRUE
        /\ Registered(c)


----------------------------------------------------------------------------
\* The errors of the dispatcher.

\* the parts of a message are text: the literal parts of an f-string and the
\* str() of what it formats, or the str() of an exception
IsMessage(message) == \A i \in DOMAIN message : message[i] \in STRING

\* C30: an error in a response of handle_request has the fields code and
\* message and no other, its code is -32601 or -32603, and its message is a
\* text, whatever the method, the params and the failure of the handler.
ErrorCodesClosed ==
    (Called /\ HasError(call.resp)) =>
        /\ DOMAIN call.resp["error"] = {"code", "message"}
        /\ call.resp["error"]["code"] \in {MethodNotFound, InternalError}
        /\ IsMessage(call.resp["error"]["message"])
        /\ ~HasResult(call.resp)

\* C30 witness: a tool/call of summarize with a text that has no len() was
\* answered with the code -32603 and the message of the TypeError.
ErrorCodesClosedWitness ==
    /\ Called
    /\ Calls(call.req, "summarize")
    /\ HasError(call.resp)
    /\ call.resp["error"] = [code |-> InternalError, message |-> NoLenMsg]


----------------------------------------------------------------------------
\* The end of a websocket, and what is left of it.

\* C31: once the loop of a websocket has ended, on a disconnect, on a frame
\* that cannot be decoded or is no object, on a failed send or on the
\* cancellation of its task, its identifier is no key of the connections.
NoConnectionLeak ==
    \A c \in Conns : Closed(c) => connection_id[c] \notin DOMAIN connections


\* C32: with the tasks scheduled fairly, a request read on a websocket is
\* followed by the sending of its response on that websocket, which then has
\* sent the ids of all it has read, or by the end of the websocket.
ResponseLiveness ==
    \A c \in Conns :
        (Open(c) /\ Unanswered(c) > 0) ~> (Closed(c) \/ (Open(c) /\ sent[c] = received[c]))

\* C32 witness: a websocket that read two requests, the first for a tool
\* that stored and the second for a tool that raised, has sent the
\* responses to both.
ResponseLivenessWitness ==
    \E c \in Conns :
        /\ pc[c] = "receiving"
        /\ received[c] = <<"1", "2">>
        /\ sent[c] = <<"1", "2">>
        /\ lastSent[c] = "internal_error"
        /\ <<"s1", "k1">> \in DOMAIN stored
        /\ stored[<<"s1", "k1">>].by = c


----------------------------------------------------------------------------
\* The remote's own errors.

\* the remote answered with status 200 and an envelope that has an error and
\* no result
ProtocolError ==
    /\ remote.outcome.kind = "reply"
    /\ remote.outcome.status = StatusOk
    /\ IsJson(remote.outcome.body)
    /\ IsMapping(remote.outcome.body)
    /\ "error" \in DOMAIN remote.outcome.body
    /\ "result" \notin DOMAIN remote.outcome.body

\* C33: when the remote answers a call_tool with status 200 and an envelope
\* that has an error and no result, call_tool returns a mapping that has an
\* error entry.
ProtocolErrorSurfaces ==
    (Ran("call_tool") /\ ProtocolError) =>
        /\ ~remote.ret.raises
        /\ "error" \in DOMAIN remote.ret.value


----------------------------------------------------------------------------
\* The session ids the server draws.

\* the retrieve that reads back what the store of the request wrote under id
ReadBack(request, id, sess) ==
    handle_request(tools,
                   ToolCallRequest("1", "retrieve", [session_id |-> id, key |-> KeyOf(request)]),
                   sess).response

\* C34: the step that handles a store without a session id is answered with
\* a result that names a session id no session had; after it that session
\* exists and holds the value under the key, every session that existed is
\* as it was and no other session is new, and a retrieve with the id
\* returned and the key of the store is answered with the value.
MintedStoreReadsBack ==
    [][(CallDispatches /\ MintsUuid(tools, call'.req)) =>
          /\ HasResult(call'.resp)
          /\ call'.resp["result"]["session_id"] \notin DOMAIN sessions
          /\ DOMAIN sessions' = DOMAIN sessions \cup {call'.resp["result"]["session_id"]}
          /\ \A s \in DOMAIN sessions : sessions'[s] = sessions[s]
          /\ HasResult(ReadBack(call'.req, call'.resp["result"]["session_id"], sessions'))
          /\ ReadBack(call'.req, call'.resp["result"]["session_id"], sessions')
                 ["result"]["value"] = Get(Arguments(call'.req), "value", None)]_vars


----------------------------------------------------------------------------
\* The frames that are no request.

\* the loop of websocket c ended on a frame it could not decode, or on one
\* that is no object
Undecodable(c) == pc[c] \in {"JSONDecodeError", "AttributeError"}

\* C35: a frame that is no JSON text, or no JSON object, ends the loop of
\* its websocket: the step that reads it leaves no response to send, removes
\* the entry of the websocket and no other, and leaves the sessions and the
\* registry as they are; the websocket is then closed for good, unregistered,
\* and sends nothing more.
UndecodableEnds ==
    /\ [](\A c \in Conns : (pc[c] = "receiving" /\ waiting[c] > 0) =>
             ENABLED (ReceiveUndecodable(c) /\ pc'[c] \in {"JSONDecodeError", "AttributeError"}))
    /\ [][\A c \in Conns : (Open(c) /\ Undecodable(c)') =>
             /\ pc[c] = "receiving"
             /\ Registered(c)
             /\ connections' = Del(connections, connection_id[c])
             /\ resp'[c] = NoResponse
             /\ sessions' = sessions
             /\ tools' = tools]_vars
    /\ [](\A c \in Conns : Undecodable(c) =>
             /\ ~Registered(c)
             /\ resp[c] = NoResponse
             /\ ~ENABLED (Send(c) \/ HandlerRun(c) \/ SendFails(c) \/ ReceiveDisconnect(c)))
    /\ [][\A c \in Conns : Undecodable(c) => pc'[c] = pc[c]]_vars

\* C35 witness: a websocket ended on a frame that is no JSON text while a
\* session was held and another websocket was open; its entry is gone, the
\* other's is there.
UndecodableEndsWitness ==
    \E c, d \in Conns :
        /\ pc[c] = "JSONDecodeError"
        /\ connection_id[c] # ""
        /\ ~Registered(c)
        /\ sessions # EmptyMap
        /\ Open(d)
        /\ Registered(d)
        /\ tools = register_default_tools


----------------------------------------------------------------------------
\* What a tool/call leaves out.

\* a tool/call without params, or whose params have no name
OmitsName(request) ==
    /\ Get(request, "method", "") = "tool/call"
    /\ \/ "params" \notin DOMAIN request
       \/ IsMapping(request["params"]) /\ "name" \notin DOMAIN request["params"]

\* a tool/call that names a registered tool and has no arguments
OmitsArguments(request) ==
    /\ Get(request, "method", "") = "tool/call"
    /\ "params" \in DOMAIN request
    /\ IsMapping(request["params"])
    /\ "name" \in DOMAIN request["params"]
    /\ "arguments" \notin DOMAIN request["params"]
    /\ AwaitsTool(tools, request)

\* C36: a tool/call without params, or whose params have no name, is
\* answered with the error of code -32601 for the tool of the empty name, and
\* no handler has run: no result, the sessions as they were.  A tool/call that
\* names a registered tool and has no arguments is answered with what its
\* handler makes of the empty mapping: its result and its sessions, or the
\* internal error for its exception.
OmittedFieldsDefault ==
    [][CallDispatches =>
        /\ OmitsName(call'.req) =>
              /\ ~AwaitsTool(tools, call'.req)
              /\ ~HasResult(call'.resp)
              /\ HasError(call'.resp)
              /\ call'.resp["error"].code = -32601
              /\ call'.resp["error"].message = <<"Tool '", "", "' not found">>
              /\ sessions' = sessions
        /\ OmitsArguments(call'.req) =>
              LET r == Invoke(At(tools, call'.req["params"]["name"]), EmptyMap, sessions)
              IN  /\ sessions' = r.sessions
                  /\ IF r.exc = NoExc
                     THEN /\ ~HasError(call'.resp)
                          /\ HasResult(call'.resp)
                          /\ call'.resp["result"] = r.result
                     ELSE /\ ~HasResult(call'.resp)
                          /\ HasError(call'.resp)
                          /\ call'.resp["error"].code = InternalError]_vars

\* C36 witness: a tool/call whose params have arguments and no name is
\* answered that the tool '' is not found, in a server where a store without
\* arguments has set the key "" of a session it created to None.
OmittedFieldsDefaultWitness ==
    /\ call # NoCall
    /\ OmitsName(call.req)
    /\ "params" \in DOMAIN call.req
    /\ "arguments" \in DOMAIN call.req["params"]
    /\ HasError(call.resp)
    /\ call.resp["error"].code = -32601
    /\ \E session_id \in DOMAIN sessions :
          /\ "" \in DOMAIN sessions[session_id]
          /\ sessions[session_id][""] = None
          /\ <<session_id, "">> \in DOMAIN stored

====
